---- MODULE Spec2Model ----
(***************************************************************************)
(* Model of src/Converter.py: the /convert-image handler (convert_image)   *)
(* and the helpers it calls.  One request is followed from the parsing of  *)
(* its query parameters to the single HTTP reply; every outbound HTTP call *)
(* is appended to `net`, and the answer of the remote server is the        *)
(* nondeterministic input of the action that issues the call.              *)
(*                                                                         *)
(* Strings are sequences of one-character strings, so that str.isdigit()   *)
(* and int() are computed character by character.  URLs built from the     *)
(* two templates are sequences of tokens.  processing_time and the         *)
(* timestamps (wall-clock floats) are left out of the reply body.          *)
(***************************************************************************)
EXTENDS Integers, Sequences, FiniteSets, TLC

(***************************************************************************)
(* Bounds of the model.                                                    *)
(***************************************************************************)
\* largest width and height of a decoded source image
MaxSrc == 2
\* largest in-range target width and height requested explicitly
MaxTarget == 2
\* getpixel may raise at pixel index 0 .. MaxRaiseAt-1 of the flattening loop
MaxRaiseAt == 2
\* longest pixel tuple handed to the flattening loop's conversion
MaxChannels == 4

(***************************************************************************)
(* Program constants.                                                      *)
(***************************************************************************)
MaxDimension == 512
DefaultSize == 32
LookupTimeout == 10
FetchTimeout == 20
RetryDelay == 2

Min(a, b) == IF a < b THEN a ELSE b
Max(a, b) == IF a > b THEN a ELSE b

(***************************************************************************)
(* Query parameters: request.args.get(name) is None or a string.           *)
(***************************************************************************)
None == [present |-> FALSE, text |-> <<>>]
Str(s) == [present |-> TRUE, text |-> s]

\* Python truthiness of an Optional[str]: None and "" are falsy
Truthy(p) == p.present /\ Len(p.text) > 0

Digits == <<"0", "1", "2", "3", "4", "5", "6", "7", "8", "9">>
IsDigitChar(c) == \E i \in 1..10 : Digits[i] = c
DigitVal(c) == (CHOOSE i \in 1..10 : Digits[i] = c) - 1

\* the decimal numeral of a natural number (used to build the inputs)
RECURSIVE Decimal(_)
Decimal(n) == IF n < 10 THEN <<Digits[n + 1]>>
              ELSE Decimal(n \div 10) \o <<Digits[(n % 10) + 1]>>

\* str.isdigit(): non-empty and every character is a digit
AllDigits(s) == Len(s) > 0 /\ \A i \in 1..Len(s) : IsDigitChar(s[i])

RECURSIVE DigitsValue(_)
DigitsValue(s) == IF Len(s) = 0 THEN 0
                  ELSE 10 * DigitsValue(SubSeq(s, 1, Len(s) - 1)) + DigitVal(s[Len(s)])

\* int(str): an optional sign followed by at least one digit, else ValueError
ParseInt(s) ==
    IF AllDigits(s) THEN [ok |-> TRUE, val |-> DigitsValue(s)]
    ELSE IF Len(s) > 1 /\ s[1] = "-" /\ AllDigits(Tail(s))
         THEN [ok |-> TRUE, val |-> 0 - DigitsValue(Tail(s))]
    ELSE IF Len(s) > 1 /\ s[1] = "+" /\ AllDigits(Tail(s))
         THEN [ok |-> TRUE, val |-> DigitsValue(Tail(s))]
    ELSE [ok |-> FALSE, val |-> 0]

\* int(request.args.get(name, 32))
DimensionArg(p) == IF p.present THEN ParseInt(p.text)
                   ELSE [ok |-> TRUE, val |-> DefaultSize]

is_roblox_asset_id_FirstCharOnly(url_or_id) ==
    Len(url_or_id) > 0 /\ IsDigitChar(url_or_id[1])

\* is_roblox_asset_id
is_roblox_asset_id(url_or_id) == AllDigits(url_or_id)

\* the dimension check of convert_image
ExceedsMaximum(w, h) == w > MaxDimension \/ h > MaxDimension

(***************************************************************************)
(* The request inputs.                                                     *)
(***************************************************************************)
\* ?url= is absent, empty, digits followed by a letter, or a URL
UrlParams == { None, Str(<<>>), Str(<<"4", "a">>),
               Str(<<"http:", "/", "/", "i.", "imgur.com", "/", "a.png">>) }
\* ?id= is absent, empty, digits only, signed, or with a decimal point
IdParams == { None, Str(<<>>), Str(<<"4", "2">>), Str(<<"-", "4">>),
              Str(<<"4", ".", "2">>) }

DimensionTexts == {Decimal(n) : n \in 0..MaxTarget}
                  \cup {Decimal(MaxDimension + 1), <<"a">>}
DimensionParams == {None} \cup {Str(s) : s \in DimensionTexts}

Requests == [url : UrlParams, id : IdParams,
             width : DimensionParams, height : DimensionParams]

(***************************************************************************)
(* URLs.                                                                   *)
(***************************************************************************)
\* ROBLOX_ASSET_URL.format(asset_id)
ROBLOX_ASSET_URL(asset_id) ==
    <<"https:", "/", "/", "assetdelivery.roblox.com", "/", "v1", "/", "asset", "/", "?id=">>
        \o asset_id
\* ROBLOX_THUMBNAIL_URL.format(asset_id)
ROBLOX_THUMBNAIL_URL(asset_id) ==
    <<"https:", "/", "/", "thumbnails.roblox.com", "/", "v1", "/", "assets?assetIds=">>
        \o asset_id \o <<"&returnPolicy=PlaceHolder&size=420x420&format=Png&isCircular=false">>
\* the imageUrl a successful thumbnail lookup returns (a CDN address)
ThumbnailImageUrl == <<"https:", "/", "/", "tr.rbxcdn.com", "/", "thumb">>

\* the outcomes of the thumbnail lookup: an exception of requests.get
\* (a timeout included), a non-200 status, a 200 whose JSON has no usable
\* imageUrl, a 200 with an imageUrl
LookupOutcomes == { [exc |-> "Timeout", status |-> 0, imageUrl |-> <<>>],
                    [exc |-> "none", status |-> 404, imageUrl |-> <<>>],
                    [exc |-> "none", status |-> 200, imageUrl |-> <<>>],
                    [exc |-> "none", status |-> 200, imageUrl |-> ThumbnailImageUrl] }

\* get_roblox_image_url, given the outcome of its requests.get
get_roblox_image_url(asset_id, o) ==
    IF o.exc # "none" THEN ROBLOX_ASSET_URL(asset_id)
    ELSE IF o.status = 200 /\ Len(o.imageUrl) > 0 THEN o.imageUrl
    ELSE ROBLOX_ASSET_URL(asset_id)

\* the segments of str.split('/')
RECURSIVE Split(_, _)
Split(s, cur) == IF Len(s) = 0 THEN <<cur>>
                 ELSE IF Head(s) = "/" THEN <<cur>> \o Split(Tail(s), <<>>)
                 ELSE Split(Tail(s), Append(cur, Head(s)))

\* image_url.split('/')[2] if len(image_url.split('/')) > 2 else ''
DomainOf(image_url) ==
    LET parts == Split(image_url, <<>>)
    IN IF Len(parts) > 2 THEN parts[3] ELSE <<>>

Contains(s, tok) == \E i \in 1..Len(s) : s[i] = tok

\* the Referer chosen for the first header set
RefererFor(domain) ==
    IF Contains(domain, "stockcake.com") THEN <<"https:", "/", "/", "stockcake.com", "/">>
    ELSE IF Contains(domain, "imgur.com") THEN <<"https:", "/", "/", "imgur.com", "/">>
    ELSE IF Contains(domain, "discord") THEN <<"https:", "/", "/", "discord.com", "/">>
    ELSE IF Contains(domain, "pinterest") THEN <<"https:", "/", "/", "www.pinterest.com", "/">>
    ELSE <<"https:", "/", "/">> \o domain \o <<"/">>

\* headers of the first GET and of the 429 retry
BrowserHeaders(image_url) == [agent |-> "Chrome", referer |-> RefererFor(DomainOf(image_url))]
\* alt_headers of the 403 retry
MobileHeaders == [agent |-> "iPhone", referer |-> <<"https:", "/", "/", "www.google.com", "/">>]

(***************************************************************************)
(* Upstream answers to the image GET.                                      *)
(***************************************************************************)
\* str.lower() on the tokens of a content-type
Lower(tok) == IF tok = "Image/" THEN "image/"
              ELSE IF tok = "Text/" THEN "text/" ELSE tok
LowerAll(s) == [i \in 1..Len(s) |-> Lower(s[i])]

\* content_type and not any(t in content_type for t in ['image/', 'application/octet-stream'])
NotAnImageType(content_type) ==
    /\ Len(content_type) > 0
    /\ ~ (Contains(content_type, "image/") \/ Contains(content_type, "application/octet-stream"))

\* response.content: nothing, bytes Image.open rejects, or an encoded
\* bitmap whose pixel data may be cut short
NoImage == [mode |-> "none", w |-> 0, h |-> 0, px |-> <<>>, format |-> "none"]
NoContent == [empty |-> TRUE, image |-> NoImage, complete |-> FALSE]
Garbage == [empty |-> FALSE, image |-> NoImage, complete |-> FALSE]
Encoded(img, complete) == [empty |-> FALSE, image |-> img, complete |-> complete]

NoResponse == [exc |-> "none", status |-> 0, content |-> NoContent, content_type |-> <<>>]
Raised(e) == [exc |-> e, status |-> 0, content |-> NoContent, content_type |-> <<>>]
Answer(status, content, content_type) ==
    [exc |-> "none", status |-> status, content |-> content, content_type |-> content_type]

(***************************************************************************)
(* Bitmaps.  px[y][x] is the tuple of channel values, 0-based as in PIL.   *)
(***************************************************************************)
Channels(mode) == IF mode = "RGBA" THEN 4 ELSE IF mode = "RGB" THEN 3 ELSE 1

\* the sample stored at (x, y), channel c of a source image
Sample(x, y, c) == IF c = 4 THEN ((x + 2 * y) * 85) % 256
                   ELSE (x * 97 + y * 31 + c * 53 + 40) % 256

SourceImage(mode, w, h) ==
    [mode |-> mode, w |-> w, h |-> h, format |-> "PNG",
     px |-> [y \in 0..(h - 1) |-> [x \in 0..(w - 1) |->
                [c \in 1..Channels(mode) |-> Sample(x, y, c)]]]]

\* the images the remote servers hold: one per size, the modes and the
\* declared content-types taken in turn
Modes == <<"RGB", "RGBA", "L">>
ImageTypes == << <<"Image/", "png">>, <<"application/octet-stream">>, <<>> >>
ModeFor(w, h) == Modes[((w + 2 * h) % 3) + 1]
TypeFor(w, h) == ImageTypes[((2 * w + h) % 3) + 1]

\* what requests.get(image_url, ...) can produce: a Timeout, another
\* RequestException, or a response.  The body and the content-type are read
\* only from a 200 response.
FetchOutcomes ==
    { Raised("Timeout"), Raised("ConnectionError") }
    \cup { Answer(st, NoContent, <<>>) : st \in {403, 429, 404} }
    \cup { Answer(200, Encoded(SourceImage(ModeFor(w, h), w, h), TRUE), TypeFor(w, h)) :
             w \in 1..MaxSrc, h \in 1..MaxSrc }
    \cup { Answer(200, Encoded(SourceImage("RGB", 1, 1), FALSE), <<>>),
           Answer(200, Garbage, <<"Image/", "png">>),
           Answer(200, Garbage, <<"Text/", "html">>),
           Answer(200, NoContent, <<"Image/", "png">>) }

Clip(v) == Max(0, Min(255, v))

\* Pillow's MULDIV255
MulDiv255(a, b) == LET t == a * b + 128 IN ((t \div 256) + t) \div 256

MapPixels(img, f(_, _)) ==
    [img EXCEPT !.px = [y \in 0..(img.h - 1) |-> [x \in 0..(img.w - 1) |-> f(x, y)]]]

\* lines 53-59: paste over a white background through the alpha band, or convert('RGB')
ToRGB(img) ==
    IF img.mode = "RGB" THEN img
    ELSE IF img.mode = "RGBA"
    THEN LET over(x, y) == LET p == img.px[y][x]
                           IN [c \in 1..3 |-> Clip(MulDiv255(p[c], p[4])
                                                    + MulDiv255(255, 255 - p[4]))]
         IN [MapPixels(img, over) EXCEPT !.mode = "RGB"]
    ELSE LET grey(x, y) == [c \in 1..3 |-> img.px[y][x][1]]
         IN [MapPixels(img, grey) EXCEPT !.mode = "RGB"]

\* ImageFilter.SMOOTH: a 3x3 kernel (1 1 1 / 1 5 1 / 1 1 1) / 13, borders copied
Smooth(img) ==
    LET inner(x, y) == x > 0 /\ y > 0 /\ x < img.w - 1 /\ y < img.h - 1
        conv(x, y, c) == ( img.px[y - 1][x - 1][c] + img.px[y - 1][x][c] + img.px[y - 1][x + 1][c]
                         + img.px[y][x - 1][c] + 5 * img.px[y][x][c] + img.px[y][x + 1][c]
                         + img.px[y + 1][x - 1][c] + img.px[y + 1][x][c] + img.px[y + 1][x + 1][c] )
                         \div 13
        f(x, y) == [c \in 1..3 |-> IF inner(x, y) THEN conv(x, y, c) ELSE img.px[y][x][c]]
    IN MapPixels(img, f)

\* Image.blend(degenerate, image, tenths / 10), clipped to a byte
Blend(degenerate, img, tenths) ==
    LET f(x, y) == [c \in 1..3 |->
                      Clip((degenerate.px[y][x][c] * (10 - tenths) + img.px[y][x][c] * tenths) \div 10)]
    IN MapPixels(img, f)

RECURSIVE SumSeq(_)
SumSeq(s) == IF Len(s) = 0 THEN 0 ELSE Head(s) + SumSeq(Tail(s))

\* the mean luminance ImageEnhance.Contrast blends towards
MeanGrey(img) ==
    LET lum(p) == (299 * p[1] + 587 * p[2] + 114 * p[3]) \div 1000
        rows == [y \in 1..img.h |-> SumSeq([x \in 1..img.w |-> lum(img.px[y - 1][x - 1])])]
    IN (2 * SumSeq(rows) + img.w * img.h) \div (2 * img.w * img.h)

\* enhance_image_quality: RGB, Sharpness 1.2, Contrast 1.1
enhance_image_quality(image) ==
    LET rgb == ToRGB(image)
        sharp == Blend(Smooth(rgb), rgb, 12)
        m == MeanGrey(sharp)
        grey == MapPixels(sharp, LAMBDA x, y : <<m, m, m>>)
    IN Blend(grey, sharp, 11)

\* Image.resize(size): the geometry is exact, the resampling filter is
\* represented by the nearest source sample
Resample(img, tw, th) ==
    [img EXCEPT !.w = tw, !.h = th,
                !.px = [y \in 0..(th - 1) |-> [x \in 0..(tw - 1) |->
                          img.px[(y * img.h) \div th][(x * img.w) \div tw]]]]

\* Image.resize raises ValueError unless both sides are positive
ResizeRaises(tw, th) == tw < 1 \/ th < 1

\* resize_with_quality
resize_with_quality(image, tw, th) ==
    LET first == IF image.w < tw \/ image.h < th
                 THEN Resample(image, Max(image.w, tw * 2), Max(image.h, th * 2))
                 ELSE image
    IN Resample(first, tw, th)

(***************************************************************************)
(* The conversion of one pixel in the flattening loop.  A pixel is what    *)
(* getpixel returned: a tuple of elements or a bare value.  An element is  *)
(* an int, a float (v counts halves), a NaN float or a non-number.         *)
(***************************************************************************)
IntVal(n) == [t |-> "int", v |-> n]
ElementValues == { IntVal(n) : n \in {0 - 3, 0, 128, 255, 300} }
                 \cup { [t |-> "float", v |-> 257], [t |-> "float", v |-> 0 - 1],
                        [t |-> "nan", v |-> 0], [t |-> "str", v |-> 0] }

TupleOf(es) == [tuple |-> TRUE, elems |-> es]
Bare(e) == [tuple |-> FALSE, elems |-> <<e>>]

RECURSIVE SeqsUpTo(_, _)
SeqsUpTo(S, n) == IF n = 0 THEN {<<>>}
                  ELSE LET shorter == SeqsUpTo(S, n - 1)
                       IN shorter \cup {Append(q, e) : q \in {r \in shorter : Len(r) = n - 1}, e \in S}

PixelShapes == {TupleOf(es) : es \in SeqsUpTo(ElementValues, MaxChannels)}
               \cup {Bare(e) : e \in ElementValues}

\* isinstance(value, (int, float))
IsNumber(e) == e.t \in {"int", "float", "nan"}
\* int(value) raises for a NaN and for a non-number
IntRaises(e) == e.t \in {"nan", "str"}
\* int(value): a float is truncated towards zero
IntOf(e) == IF e.t = "float" THEN (IF e.v >= 0 THEN e.v \div 2 ELSE 0 - ((0 - e.v) \div 2))
            ELSE e.v

ClampByte_NoUpperBound(n) == Max(0, n)

\* max(0, min(255, int(value)))
ClampByte(n) == Max(0, Min(255, n))

\* lines 206-214: the three values taken from the pixel
ChannelsOf(pixel) ==
    LET zero == IntVal(0)
    IN IF pixel.tuple
       THEN IF Len(pixel.elems) >= 3 THEN SubSeq(pixel.elems, 1, 3)
            ELSE IF Len(pixel.elems) = 1
                 THEN <<pixel.elems[1], pixel.elems[1], pixel.elems[1]>>
            ELSE <<zero, zero, zero>>
       ELSE IF IsNumber(pixel.elems[1])
            THEN <<pixel.elems[1], pixel.elems[1], pixel.elems[1]>>
       ELSE <<zero, zero, zero>>

NoRecord == [R |-> 0 - 1, G |-> 0 - 1, B |-> 0 - 1]

\* lines 206-220: the record appended for a pixel, or the exception of int()
PixelRecordOf(pixel) ==
    LET ch == ChannelsOf(pixel)
    IN IF \E c \in 1..3 : IntRaises(ch[c])
       THEN [raised |-> TRUE, rec |-> NoRecord]
       ELSE [raised |-> FALSE,
             rec |-> [R |-> ClampByte(IntOf(ch[1])), G |-> ClampByte(IntOf(ch[2])),
                      B |-> ClampByte(IntOf(ch[3]))]]

\* image.getpixel((x, y)) of a bitmap of the model
getpixel(image, x, y) ==
    TupleOf([c \in 1..Len(image.px[y][x]) |-> IntVal(image.px[y][x][c])])

\* one pass of the inner loop: for x in range(image.width)
RowOf(image, y) == [i \in 1..image.w |-> PixelRecordOf(getpixel(image, i - 1, y))]

\* the outer loop: for y in range(image.height)
RECURSIVE RowsFrom(_, _)
RowsFrom(image, y) == IF y >= image.h THEN <<>>
                      ELSE RowOf(image, y) \o RowsFrom(image, y + 1)

FlattenLoop_ColumnMajor(image) ==
    [k \in 1..(image.w * image.h) |->
        PixelRecordOf(getpixel(image, (k - 1) \div image.h, (k - 1) % image.h))]

FlattenLoop(image) == RowsFrom(image, 0)

(***************************************************************************)
(* Replies of the handler: status and JSON body.                           *)
(***************************************************************************)
NoReply == [status |-> 0, body |-> [none |-> TRUE]]

\* Flask's answer to an exception that leaves the view function
UnhandledReply == [status |-> 500, body |-> [html |-> "Internal Server Error"]]

DimensionReply == [status |-> 400, body |-> [error |-> "Maximum dimensions are 512x512"]]
MissingSourceReply ==
    [status |-> 400,
     body |-> [error |-> "No URL or asset ID provided in query parameters (use ?url= or ?id=)"]]
FetchFailedReply(image_url) ==
    [status |-> 500,
     body |-> [error |-> "Failed to fetch image: HTTP {status_code}", url_tested |-> image_url,
               suggestion |-> "Try a different image URL or check if the image is publicly accessible"]]
EmptyBodyReply_400 == [status |-> 400, body |-> [error |-> "Empty image file received"]]
EmptyBodyReply == [status |-> 500, body |-> [error |-> "Empty image file received"]]
ContentTypeReply ==
    [status |-> 400,
     body |-> [error |-> "URL does not point to an image (content-type: {content_type})"]]
DecodeFailedReply ==
    [status |-> 500,
     body |-> [error |-> "Failed to open image: {e}",
               suggestion |-> "The URL might not point to a valid image file"]]
PixelErrorReply_WithPartial(partial) ==
    [status |-> 500, body |-> [error |-> "Error processing pixels: {e}", pixels |-> partial]]
PixelErrorReply(partial) ==
    [status |-> 500, body |-> [error |-> "Error processing pixels: {e}"]]
TimeoutReply ==
    [status |-> 504, body |-> [error |-> "Request timed out fetching the image (20s limit)"]]
NetworkErrorReply == [status |-> 500, body |-> [error |-> "Network error: {e}"]]
UnexpectedReply == [status |-> 500, body |-> [error |-> "Unexpected error: {e}"]]
SuccessReply(pixels, width, height, original_format) ==
    [status |-> 200,
     body |-> [pixels |-> pixels, width |-> width, height |-> height,
               total_pixels |-> Len(pixels), original_format |-> original_format,
               success |-> TRUE]]

(***************************************************************************)
(* State.                                                                  *)
(***************************************************************************)
VARIABLES
    pc,           \* position of the handler
    args,         \* request.args of the request being handled
    width,        \* int(request.args.get('width', 32))
    height,       \* int(request.args.get('height', 32))
    image_input,  \* request.args.get('url') or request.args.get('id')
    image_url,    \* the URL that is fetched
    net,          \* every outbound HTTP call, in order, with its outcome
    response,     \* the last answer to the image GET
    image,        \* the bitmap
    pixels,       \* the list the flattening loop appends to
    stages,       \* the pipeline stages that have run
    reply,        \* the HTTP reply of the handler
    probe,        \* a pixel value handed to the conversion on its own
    probe_out     \* the conversion's result for probe

vars == <<pc, args, width, height, image_input, image_url, net, response, image,
          pixels, stages, reply, probe, probe_out>>

NoArgs == [url |-> None, id |-> None, width |-> None, height |-> None]
NoProbe == Bare(IntVal(0))
NoProbeOut == [raised |-> FALSE, rec |-> NoRecord]

LookupHeaders == [agent |-> "python-requests", referer |-> <<>>]

LookupCall(asset_id, o) ==
    [kind |-> "lookup", url |-> ROBLOX_THUMBNAIL_URL(asset_id), headers |-> LookupHeaders,
     timeout |-> LookupTimeout, slept |-> 0, exc |-> o.exc, status |-> o.status,
     imageUrl |-> o.imageUrl]

ImageCall(url, headers, slept, o) ==
    [kind |-> "image", url |-> url, headers |-> headers,
     timeout |-> FetchTimeout, slept |-> slept, exc |-> o.exc, status |-> o.status,
     imageUrl |-> <<>>]

Init ==
    /\ pc = "idle"
    /\ args = NoArgs
    /\ width = 0
    /\ height = 0
    /\ image_input = <<>>
    /\ image_url = <<>>
    /\ net = <<>>
    /\ response = NoResponse
    /\ image = NoImage
    /\ pixels = <<>>
    /\ stages = <<>>
    /\ reply = NoReply
    /\ probe = NoProbe
    /\ probe_out = NoProbeOut

\* return jsonify(...), status
Respond(r) == reply' = r /\ pc' = "done"

(***************************************************************************)
(* convert_image, lines 105-117: parameters and their validation.          *)
(***************************************************************************)
Validate(r) ==
    /\ pc = "idle"
    /\ args' = r
    /\ LET w == DimensionArg(r.width)
           h == DimensionArg(r.height)
           input == IF Truthy(r.url) THEN r.url ELSE r.id
       IN IF ~ w.ok \/ ~ h.ok
          THEN /\ Respond(UnhandledReply)
               /\ UNCHANGED <<width, height, image_input>>
          ELSE /\ width' = w.val
               /\ height' = h.val
               /\ image_input' = input.text
               /\ IF ExceedsMaximum(w.val, h.val) THEN Respond(DimensionReply)
                  ELSE IF ~ Truthy(input) THEN Respond(MissingSourceReply)
                  ELSE pc' = "resolve" /\ reply' = reply
    /\ UNCHANGED <<image_url, net, response, image, pixels, stages, probe, probe_out>>

(***************************************************************************)
(* lines 120-126: an asset id is resolved, anything else is the URL.       *)
(***************************************************************************)
Resolve(o) ==
    /\ pc = "resolve"
    /\ stages' = Append(stages, "resolve")
    /\ IF is_roblox_asset_id(image_input)
       THEN /\ net' = Append(net, LookupCall(image_input, o))
            /\ image_url' = get_roblox_image_url(image_input, o)
       ELSE /\ net' = net
            /\ image_url' = image_input
    /\ pc' = "fetch"
    /\ UNCHANGED <<args, width, height, image_input, response, image, pixels, reply,
                   probe, probe_out>>

(***************************************************************************)
(* requests.get(image_url, ...) inside the try block: a Timeout is         *)
(* answered by lines 239-241, another RequestException by lines 242-244.   *)
(***************************************************************************)
Get_TimeoutAsNetworkError(headers, slept, o, next) ==
    /\ net' = Append(net, ImageCall(image_url, headers, slept, o))
    /\ IF o.exc # "none" THEN Respond(NetworkErrorReply) /\ response' = response
       ELSE response' = o /\ pc' = next /\ reply' = reply

Get(headers, slept, o, next) ==
    /\ net' = Append(net, ImageCall(image_url, headers, slept, o))
    /\ IF o.exc = "Timeout" THEN Respond(TimeoutReply) /\ response' = response
       ELSE IF o.exc # "none" THEN Respond(NetworkErrorReply) /\ response' = response
       ELSE response' = o /\ pc' = next /\ reply' = reply

\* lines 128-152: the first GET, with the browser headers
Fetch(o) ==
    /\ pc = "fetch"
    /\ stages' = Append(stages, "fetch")
    /\ Get(BrowserHeaders(image_url), 0, o, "if403")
    /\ UNCHANGED <<args, width, height, image_input, image_url, image, pixels,
                   probe, probe_out>>

Check403_Loop(o) ==
    /\ pc = "if403"
    /\ IF response.status = 403
       THEN Get(MobileHeaders, 0, o, "if403")
       ELSE pc' = "if429" /\ UNCHANGED <<net, response, reply>>
    /\ UNCHANGED <<args, width, height, image_input, image_url, image, pixels, stages,
                   probe, probe_out>>

\* lines 154-161: on 403, one GET with the mobile headers
Check403(o) ==
    /\ pc = "if403"
    /\ IF response.status = 403
       THEN Get(MobileHeaders, 0, o, "if429")
       ELSE pc' = "if429" /\ UNCHANGED <<net, response, reply>>
    /\ UNCHANGED <<args, width, height, image_input, image_url, image, pixels, stages,
                   probe, probe_out>>

Check429_Loop(o) ==
    /\ pc = "if429"
    /\ IF response.status = 429
       THEN Get(BrowserHeaders(image_url), RetryDelay, o, "if429")
       ELSE pc' = "if200" /\ UNCHANGED <<net, response, reply>>
    /\ UNCHANGED <<args, width, height, image_input, image_url, image, pixels, stages,
                   probe, probe_out>>

\* lines 163-166: on 429, sleep, then one GET with the browser headers
Check429(o) ==
    /\ pc = "if429"
    /\ IF response.status = 429
       THEN Get(BrowserHeaders(image_url), RetryDelay, o, "if200")
       ELSE pc' = "if200" /\ UNCHANGED <<net, response, reply>>
    /\ UNCHANGED <<args, width, height, image_input, image_url, image, pixels, stages,
                   probe, probe_out>>

\* lines 168-181: status, body and content-type of the answer
CheckResponse ==
    /\ pc = "if200"
    /\ IF response.status # 200 THEN Respond(FetchFailedReply(image_url))
       ELSE IF response.content.empty THEN Respond(EmptyBodyReply)
       ELSE IF NotAnImageType(LowerAll(response.content_type)) THEN Respond(ContentTypeReply)
       ELSE pc' = "decode" /\ reply' = reply
    /\ UNCHANGED <<args, width, height, image_input, image_url, net, response, image,
                   pixels, stages, probe, probe_out>>

(***************************************************************************)
(* lines 183-198: decode, normalise and enhance, resize.                   *)
(***************************************************************************)
\* Image.open(BytesIO(response.content)): a bitmap, or an exception
Decode ==
    /\ pc = "decode"
    /\ stages' = Append(stages, "decode")
    /\ IF response.content.image = NoImage
       THEN Respond(DecodeFailedReply) /\ image' = image
       ELSE image' = response.content.image /\ pc' = "enhance" /\ reply' = reply
    /\ UNCHANGED <<args, width, height, image_input, image_url, net, response, pixels,
                   probe, probe_out>>

\* enhance_image_quality(image); loading the pixel data raises when the
\* file is cut short, which lines 245-247 answer
Enhance ==
    /\ pc = "enhance"
    /\ stages' = Append(stages, "normalize")
    /\ IF response.content.complete
       THEN image' = enhance_image_quality(image) /\ pc' = "resize" /\ reply' = reply
       ELSE Respond(UnexpectedReply) /\ image' = image
    /\ UNCHANGED <<args, width, height, image_input, image_url, net, response, pixels,
                   probe, probe_out>>

\* resize_with_quality(image, (width, height))
Resize ==
    /\ pc = "resize"
    /\ stages' = Append(stages, "resize")
    /\ IF ResizeRaises(width, height)
       THEN Respond(UnexpectedReply) /\ image' = image
       ELSE image' = resize_with_quality(image, width, height)
            /\ pc' = "flatten" /\ reply' = reply
    /\ UNCHANGED <<args, width, height, image_input, image_url, net, response, pixels,
                   probe, probe_out>>

(***************************************************************************)
(* lines 200-237: the flattening loop and the success reply.  raise_at is  *)
(* the index of the pixel at which getpixel raises, or -1.                 *)
(***************************************************************************)
\* the index (from 0) of the first pixel whose processing raises, or the
\* number of pixels when none does
StopIndex(conv, raise_at) ==
    LET bad == {i \in 1..Len(conv) : conv[i].raised \/ i = raise_at + 1}
    IN IF bad = {} THEN Len(conv)
       ELSE (CHOOSE i \in bad : \A j \in bad : i <= j) - 1

Flatten(raise_at) ==
    /\ pc = "flatten"
    /\ stages' = Append(stages, "flatten")
    /\ \E conv \in {FlattenLoop(image)} :
         \E stop \in {StopIndex(conv, raise_at)} :
           /\ pixels' = [i \in 1..stop |-> conv[i].rec]
           /\ IF stop = Len(conv)
              THEN Respond(SuccessReply(pixels', width, height, image.format))
              ELSE Respond(PixelErrorReply(pixels'))
    /\ UNCHANGED <<args, width, height, image_input, image_url, net, response, image,
                   probe, probe_out>>

Next ==
    \/ \E r \in Requests : Validate(r)
    \/ \E o \in LookupOutcomes : Resolve(o)
    \/ \E o \in FetchOutcomes : Fetch(o)
    \/ \E o \in FetchOutcomes : Check403(o)
    \/ \E o \in FetchOutcomes : Check429(o)
    \/ CheckResponse
    \/ Decode
    \/ Enhance
    \/ Resize
    \/ \E raise_at \in (0 - 1)..(MaxRaiseAt - 1) : Flatten(raise_at)

Spec == Init /\ [][Next]_vars

(***************************************************************************)
(* The pixel conversion on its own, over every pixel shape.                *)
(***************************************************************************)
InitPixel ==
    /\ pc = "probe"
    /\ probe \in PixelShapes
    /\ probe_out = NoProbeOut
    /\ args = NoArgs /\ width = 0 /\ height = 0 /\ image_input = <<>> /\ image_url = <<>>
    /\ net = <<>> /\ response = NoResponse /\ image = NoImage /\ pixels = <<>>
    /\ stages = <<>> /\ reply = NoReply

ConvertPixel ==
    /\ pc = "probe"
    /\ probe_out' = PixelRecordOf(probe)
    /\ pc' = "probed"
    /\ UNCHANGED <<args, width, height, image_input, image_url, net, response, image,
                   pixels, stages, reply, probe>>

NextPixel == ConvertPixel

SpecPixel == InitPixel /\ [][NextPixel]_vars

(***************************************************************************)
(* Properties.                                                             *)
(***************************************************************************)
ImageCalls == SelectSeq(net, LAMBDA c : c.kind = "image")
LookupCalls == SelectSeq(net, LAMBDA c : c.kind = "lookup")
Count(s, P(_)) == Len(SelectSeq(s, P))
IsMobile(c) == c.headers = MobileHeaders
IsDelayed(c) == c.slept > 0
Replied == reply # NoReply
HasKey(k) == k \in DOMAIN reply.body
StageOrder == <<"resolve", "fetch", "decode", "normalize", "resize", "flatten">>
\* the handler is past the 403 branch, resp. past the 429 branch
Past403 == pc \notin {"idle", "resolve", "fetch", "if403"}
Past429 == Past403 /\ pc # "if429"

\* C1: a 403 answer to the first GET is followed by exactly one GET with the
\* mobile headers and no sleep; the 429 answer that reaches the 429 branch
\* (to the first GET, or to the 403 retry) is followed by exactly one GET
\* with the browser headers after a 2 second sleep; after 403,403 or 429,429
\* no further GET is issued and the reply, once made, is an error.
C1_RetryOncePerKind ==
    LET f == ImageCalls
        n == Len(f)
        answered(i) == i <= n /\ f[i].exc = "none"
        at429 == IF answered(1) /\ f[1].status = 403 THEN 2 ELSE 1
    IN /\ Count(f, IsMobile) <= 1
       /\ Count(f, IsDelayed) <= 1
       /\ (answered(1) /\ f[1].status = 403 /\ Past403) =>
             /\ n >= 2 /\ IsMobile(f[2]) /\ f[2].slept = 0 /\ f[2].url = f[1].url
             /\ Count(f, IsMobile) = 1
       /\ (answered(at429) /\ f[at429].status = 429 /\ Past429) =>
             /\ n = at429 + 1
             /\ f[n].headers = f[1].headers /\ f[n].slept = RetryDelay /\ f[n].url = f[1].url
             /\ Count(f, IsDelayed) = 1
       /\ \A i \in 1..(n - 1) :
             (answered(i) /\ answered(i + 1) /\ f[i].status = f[i + 1].status
                 /\ f[i].status \in {403, 429}) =>
                /\ n = i + 1
                /\ pc \in {"if429", "if200", "done"}
                /\ (pc = "done" => reply.status = 500 /\ HasKey("error") /\ ~ HasKey("pixels"))

C1_Witness ==
    /\ pc = "done" /\ reply.status = 500
    /\ Len(ImageCalls) = 3
    /\ ImageCalls[1].status = 403 /\ ImageCalls[2].status = 429 /\ ImageCalls[3].status = 429
    /\ IsMobile(ImageCalls[2]) /\ ImageCalls[3].slept = RetryDelay

\* C2 as stated: the image URL is requested at most twice in one request.
C2_AtMostTwoFetches == Len(ImageCalls) <= 2

\* C2 amended: the image URL is requested at most three times in one
\* request: the first GET, at most one 403 retry and at most one 429 retry;
\* a third GET happens only as the 429 retry that follows a 403 retry.
C2_AtMostThreeFetches ==
    /\ Len(ImageCalls) <= 3
    /\ Count(ImageCalls, IsMobile) <= 1
    /\ Count(ImageCalls, IsDelayed) <= 1
    /\ Len(ImageCalls) = 3 =>
          /\ ImageCalls[1].status = 403 /\ ImageCalls[2].status = 429
          /\ IsMobile(ImageCalls[2]) /\ IsDelayed(ImageCalls[3])

C2_Witness ==
    /\ Len(ImageCalls) = 3 /\ ImageCalls[3].status = 200 /\ pc = "done" /\ reply.status = 200

\* the parameter is an integer above 512
Oversized(p) == p.present /\ ParseInt(p.text).ok /\ ParseInt(p.text).val > 512

\* C3: a request whose width or height exceeds 512 is answered with 400
\* and no outbound call (lookup or image GET) is made for it.
C3_OversizedRejected ==
    (pc # "idle" /\ (Oversized(args.width) \/ Oversized(args.height))) =>
        /\ pc = "done" /\ reply.status = 400
        /\ net = <<>>

\* C4: a request without a non-empty url or id is answered with 400 and no
\* outbound call is made for it, whatever width and height are.
C4_MissingSourceRejected ==
    (pc # "idle" /\ ~ Truthy(args.url) /\ ~ Truthy(args.id)) =>
        /\ pc = "done" /\ reply.status = 400
        /\ net = <<>>

DecimalDigits == {"0", "1", "2", "3", "4", "5", "6", "7", "8", "9"}
OnlyDecimalDigits(s) == s # <<>> /\ \A i \in 1..Len(s) : s[i] \in DecimalDigits

C6_RowMajorGrid ==
    (Replied /\ reply.status = 200) =>
        /\ width \in 1..MaxDimension /\ height \in 1..MaxDimension
        /\ reply.body.width = width /\ reply.body.height = height
        /\ image.w = width /\ image.h = height
        /\ reply.body.total_pixels = width * height
        /\ Len(reply.body.pixels) = width * height
        /\ \A k \in 0..(width * height - 1) :
              LET p == image.px[k \div width][k % width]
              IN reply.body.pixels[k + 1] = [R |-> p[1], G |-> p[2], B |-> p[3]]

C6_Witness ==
    /\ Replied /\ reply.status = 200
    /\ width = 2 /\ height = 2
    /\ response.content.image.w = 1
    /\ Len(reply.body.pixels) = 4

\* the value a single-channel pixel stands for, or -1
SingleValue(pixel) ==
    IF pixel.tuple /\ Len(pixel.elems) # 1 THEN 0 - 1
    ELSE IF pixel.elems[1].t = "int" THEN pixel.elems[1].v
    ELSE 0 - 1

\* C7: every record the conversion emits has R, G and B in 0..255, whatever
\* the shape of the pixel; a single-channel integer value (a bare value or a
\* 1-tuple) is replicated, clamped, to the three channels.
C7_ChannelsInRange ==
    (pc = "probed" /\ ~ probe_out.raised) =>
        /\ probe_out.rec.R \in 0..255
        /\ probe_out.rec.G \in 0..255
        /\ probe_out.rec.B \in 0..255
        /\ (~ probe.tuple \/ Len(probe.elems) = 1) =>
              /\ probe_out.rec.R = probe_out.rec.G
              /\ probe_out.rec.G = probe_out.rec.B
        /\ SingleValue(probe) \in 0..255 => probe_out.rec.R = SingleValue(probe)
        /\ SingleValue(probe) > 255 => probe_out.rec.R = 255

C7_Witness ==
    /\ pc = "probed"
    /\ probe = TupleOf(<<IntVal(300)>>)
    /\ probe_out.rec = [R |-> 255, G |-> 255, B |-> 255]

IsPrefix(s, t) == Len(s) <= Len(t) /\ \A i \in 1..Len(s) : s[i] = t[i]

InvalidInput == net = <<>> /\ stages = <<>>
                /\ (ExceedsMaximum(width, height) \/ image_input = <<>>)

\* C9 as stated: 400 is returned only for a missing source or oversized
\* dimensions.
C9_BadRequestOnlyForInvalidInput ==
    (Replied /\ reply.status = 400) => InvalidInput

\* C9 amended: 400 is returned only for a missing source, oversized
\* dimensions, or a 200 answer with a body whose declared content-type is
\* not empty and names neither image/ nor application/octet-stream; a final
\* non-200 status and an empty body are answered with 500, a timeout with
\* 504, another network failure with 500, and each ends the request.
C9_UpstreamErrorStatus ==
    LET f == ImageCalls
        last == f[Len(f)]
        wrongType == /\ response.status = 200 /\ ~ response.content.empty
                     /\ response.content_type = <<"Text/", "html">>
    IN /\ (Replied /\ reply.status = 400) => (InvalidInput \/ wrongType)
       /\ (pc \in {"decode", "done"} /\ Len(f) > 0) =>
             /\ last.exc = "Timeout" => reply.status = 504
             /\ last.exc = "ConnectionError" => reply.status = 500
             /\ (last.exc = "none" /\ last.status # 200) => reply.status = 500
             /\ (last.exc = "none" /\ last.status = 200 /\ response.content.empty)
                   => reply.status = 500
             /\ reply.status \in {500, 504} /\ stages = <<"resolve", "fetch">>
                   => net[Len(net)] = last

C9_Witness ==
    /\ pc = "done" /\ reply = ContentTypeReply
    /\ response.content_type = <<"Text/", "html">>

\* C10: a timeout of an image GET (the first, the 403 retry or the 429
\* retry) ends the request with 504 and is the last outbound call; 504 is
\* returned for nothing else; a timeout of the lookup leaves the request
\* running with the direct asset URL as the URL to fetch.
C10_TimeoutHandling ==
    LET f == ImageCalls
    IN /\ \A i \in 1..Len(f) :
             f[i].exc = "Timeout" =>
                /\ i = Len(f) /\ net[Len(net)] = f[i]
                /\ pc = "done" /\ reply.status = 504
       /\ (Replied /\ reply.status = 504) => (Len(f) > 0 /\ f[Len(f)].exc = "Timeout")
       /\ (Len(net) > 0 /\ net[1].kind = "lookup" /\ net[1].exc = "Timeout") =>
             /\ image_url = ROBLOX_ASSET_URL(image_input)
             /\ \/ pc = "fetch" /\ ~ Replied
                \/ Len(f) >= 1 /\ f[1].url = ROBLOX_ASSET_URL(image_input)

C10_Witness ==
    /\ Len(net) = 4
    /\ net[1].kind = "lookup" /\ net[1].exc = "Timeout"
    /\ net[2].status = 403 /\ net[3].status = 429 /\ net[4].exc = "Timeout"
    /\ reply.status = 504

====
